---- MODULE Spec2Model ----
(***************************************************************************)
(* Client-side data-access layer of personalsuite-frontend-vue-app:        *)
(* the key-casing transcoder (utils/caseConversion.ts), the axios          *)
(* interceptor pipeline (services/api.ts) and the two Pinia resource       *)
(* stores (useYTVideoStore, useYTChannelStore).                            *)
(***************************************************************************)
EXTENDS Integers, Sequences, FiniteSets, Bags, TLC

(***************************************************************************)
(* Bounds of the model.                                                    *)
(***************************************************************************)
MaxItems == 2
MaxInFlight == 2
MaxKeyLen == 3
MaxDepth == 2
MaxMatched == 3
MaxElements == 2

(***************************************************************************)
(* JSON values.  A key or a string is a sequence of one-character strings; *)
(* a value is a tagged node: a primitive, null, an array of nodes or an    *)
(* object, the latter an ordered sequence of entries [k, v] with distinct  *)
(* keys (the order of Object.entries).                                     *)
(***************************************************************************)
Prim(s) == [t |-> "prim", v |-> s, e |-> <<>>]
Null == [t |-> "null", v |-> "", e |-> <<>>]
Arr(elems) == [t |-> "arr", v |-> "", e |-> elems]
Obj(entries) == [t |-> "obj", v |-> "", e |-> entries]
Undefined == [t |-> "undef", v |-> "", e |-> <<>>]
DateObj(s) == [t |-> "date", v |-> s, e |-> <<>>]
Entry(key, val) == [k |-> key, v |-> val]

(* JavaScript truthiness, as tested by `if (config.data)`; the primitives *)
(* of the model are strings, of which only the empty one is falsy.        *)
Truthy(data) ==
  /\ data.t \notin {"null", "undef"}
  /\ ~(data.t = "prim" /\ data.v = "")

(* Property read `o[key]`; a missing key and a primitive give undefined. *)
Get(o, key) ==
  IF o.t = "obj" /\ \E i \in 1..Len(o.e) : o.e[i].k = key
  THEN o.e[CHOOSE i \in 1..Len(o.e) : o.e[i].k = key].v
  ELSE Undefined

LowerChars ==
  <<"a","b","c","d","e","f","g","h","i","j","k","l","m",
    "n","o","p","q","r","s","t","u","v","w","x","y","z">>
UpperChars ==
  <<"A","B","C","D","E","F","G","H","I","J","K","L","M",
    "N","O","P","Q","R","S","T","U","V","W","X","Y","Z">>
IsLower(c) == \E i \in 1..26 : LowerChars[i] = c
IsUpper(c) == \E i \in 1..26 : UpperChars[i] = c
toUpperCase(c) ==
  IF IsLower(c) THEN UpperChars[CHOOSE i \in 1..26 : LowerChars[i] = c] ELSE c
toLowerCase(c) ==
  IF IsUpper(c) THEN LowerChars[CHOOSE i \in 1..26 : UpperChars[i] = c] ELSE c

(***************************************************************************)
(* snakeToCamel: str.replace(/_([a-z])/g, (_, l) => l.toUpperCase()).      *)
(* The global regex is matched left to right without overlap.              *)
(***************************************************************************)
(* Variant: the regex has no g flag, only the first match is replaced. *)
snakeToCamel_FirstOnly(str) ==
  IF \E i \in 1..(Len(str) - 1) : str[i] = "_" /\ IsLower(str[i + 1])
  THEN LET m == CHOOSE i \in 1..(Len(str) - 1) :
                  /\ str[i] = "_" /\ IsLower(str[i + 1])
                  /\ \A j \in 1..(i - 1) :
                       ~(str[j] = "_" /\ IsLower(str[j + 1]))
       IN SubSeq(str, 1, m - 1) \o <<toUpperCase(str[m + 1])>>
            \o SubSeq(str, m + 2, Len(str))
  ELSE str
RECURSIVE snakeToCamel(_)
snakeToCamel(str) ==
  IF str = <<>> THEN <<>>
  ELSE IF Len(str) >= 2 /\ str[1] = "_" /\ IsLower(str[2])
       THEN <<toUpperCase(str[2])>> \o snakeToCamel(SubSeq(str, 3, Len(str)))
       ELSE <<str[1]>> \o snakeToCamel(Tail(str))

(***************************************************************************)
(* camelToSnake: str.replace(/[A-Z]/g, l => `_${l.toLowerCase()}`).        *)
(***************************************************************************)
RECURSIVE camelToSnake(_)
camelToSnake(str) ==
  IF str = <<>> THEN <<>>
  ELSE IF IsUpper(str[1])
       THEN <<"_", toLowerCase(str[1])>> \o camelToSnake(Tail(str))
       ELSE <<str[1]>> \o camelToSnake(Tail(str))

(***************************************************************************)
(* result[key] = val on an object under construction: an existing key      *)
(* keeps its place and takes the new value, a new key is appended.         *)
(***************************************************************************)
HasKey(entries, key) == \E i \in 1..Len(entries) : entries[i].k = key
SetKey(entries, key, val) ==
  IF HasKey(entries, key)
  THEN [i \in 1..Len(entries) |->
          IF entries[i].k = key THEN Entry(key, val) ELSE entries[i]]
  ELSE Append(entries, Entry(key, val))

(***************************************************************************)
(* deepSnakeToCamel / deepCamelToSnake: arrays are mapped element-wise,    *)
(* objects are rebuilt entry by entry with the key rewritten, anything     *)
(* else is returned as it is.  `typeof data === 'object'` also holds of    *)
(* a Date, whose Object.entries is empty.                                  *)
(***************************************************************************)
IsObject(data) == data.t \in {"obj", "date"}
OwnEntries(data) == IF data.t = "obj" THEN data.e ELSE <<>>

RECURSIVE deepSnakeToCamel(_)
RECURSIVE SnakeToCamelEntries(_, _)
(* Variant: the loop was copied from the other direction and still calls  *)
(* camelToSnake on the key.                                                *)
SnakeToCamelEntries_WrongWay(entries, result) ==
  IF entries = <<>> THEN result
  ELSE SnakeToCamelEntries(Tail(entries),
         SetKey(result, camelToSnake(Head(entries).k),
                deepSnakeToCamel(Head(entries).v)))
SnakeToCamelEntries(entries, result) ==
  IF entries = <<>> THEN result
  ELSE SnakeToCamelEntries(Tail(entries),
         SetKey(result, snakeToCamel(Head(entries).k),
                deepSnakeToCamel(Head(entries).v)))
(* Variant: an array is returned as it is, its elements are not visited. *)
deepSnakeToCamel_SkipsArrays(data) ==
  IF data.t = "arr"
  THEN data
  ELSE IF IsObject(data)
       THEN Obj(SnakeToCamelEntries(OwnEntries(data), <<>>))
       ELSE data
deepSnakeToCamel(data) ==
  IF data.t = "arr"
  THEN Arr([i \in 1..Len(data.e) |-> deepSnakeToCamel(data.e[i])])
  ELSE IF IsObject(data)
       THEN Obj(SnakeToCamelEntries(OwnEntries(data), <<>>))
       ELSE data

RECURSIVE deepCamelToSnake(_)
RECURSIVE CamelToSnakeEntries(_, _)
CamelToSnakeEntries(entries, result) ==
  IF entries = <<>> THEN result
  ELSE CamelToSnakeEntries(Tail(entries),
         SetKey(result, camelToSnake(Head(entries).k),
                deepCamelToSnake(Head(entries).v)))
deepCamelToSnake(data) ==
  IF data.t = "arr"
  THEN Arr([i \in 1..Len(data.e) |-> deepCamelToSnake(data.e[i])])
  ELSE IF IsObject(data)
       THEN Obj(CamelToSnakeEntries(OwnEntries(data), <<>>))
       ELSE data

(***************************************************************************)
(* The resource stores.  `store` names the resource of the store instance  *)
(* the behaviour is about; the two stores share no state.                  *)
(***************************************************************************)
VARIABLES store, items, loading, error, pending, last, race, conv,
          route, sticky, server
vars == <<store, items, loading, error, pending, last, race, conv,
          route, sticky, server>>

Stores == {"video", "channel"}
Actions == {"getAll", "getById", "create", "update", "remove"}
Ids == {"1", "2"}
Vals == {"x", "y"}
(* The id the calls are made with; items carry it or the other id. *)
CallIds == {"1"}

(* error.value = null *)
NoError == "<null>"
(* status: null of an envelope *)
StatusNull == 0

IdKey == <<"i","d">>
(* A second field of the resource, whose key differs between the casings: *)
(* publishedAt of a YTVideo, createdAt of a YTChannel.                    *)
LocalDateKey(s) ==
  IF s = "video" THEN <<"p","u","b","l","i","s","h","e","d","A","t">>
  ELSE <<"c","r","e","a","t","e","d","A","t">>
WireDateKey(s) ==
  IF s = "video" THEN <<"p","u","b","l","i","s","h","e","d","_","a","t">>
  ELSE <<"c","r","e","a","t","e","d","_","a","t">>
OrderByKey == <<"o","r","d","e","r","_","b","y">>

WireItem(s, id, val) ==
  Obj(<<Entry(IdKey, Prim(id)), Entry(WireDateKey(s), Prim(val))>>)
LocalItem(s, id, val) ==
  Obj(<<Entry(IdKey, Prim(id)), Entry(LocalDateKey(s), Prim(val))>>)
(* The items the backend can hold: every version of the item the calls    *)
(* name, and one item with another id.                                     *)
WireItems(s) ==
  {WireItem(s, id, val) : id \in CallIds, val \in Vals}
    \cup {WireItem(s, id, "x") : id \in Ids \ CallIds}
WireItemsWithId(s, id) == {d \in WireItems(s) : Get(d, IdKey) = Prim(id)}
SeqsUpTo(S, n) == UNION {[1..k -> S] : k \in 0..n}
(* A collection as the backend lists it: no id occurs twice. *)
Collections(s, n) ==
  {c \in SeqsUpTo(WireItems(s), n) :
     \A i, j \in 1..Len(c) :
       Get(c[i], IdKey) = Get(c[j], IdKey) => i = j}

(* Arguments of the calls: GetAllParams, Partial<YTVideo|YTChannel>. *)
ParamsArgs == {Obj(<<Entry(OrderByKey, Prim("asc"))>>)}
BodyArgs(s) == {Obj(<<Entry(LocalDateKey(s), Prim("x"))>>)}

(* mediaTrackerEndpoints.v1.youTube.videos / .channels, `${endpoint}${id}` *)
Endpoint(s) == IF s = "video" THEN "videos" ELSE "channels"
Url(s, id) == [endpoint |-> Endpoint(s), id |-> id]

(***************************************************************************)
(* The shared axios instance and its interceptors.                         *)
(***************************************************************************)
(* Variant: the request interceptor transcodes the query parameters only  *)
(* and sends the body as the caller wrote it.                              *)
RequestInterceptor_ParamsOnly(config) ==
  [config EXCEPT
     !.params = IF Truthy(@) THEN deepCamelToSnake(@) ELSE @]
RequestInterceptor(config) ==
  [config EXCEPT
     !.data = IF Truthy(@) THEN deepCamelToSnake(@) ELSE @,
     !.params = IF Truthy(@) THEN deepCamelToSnake(@) ELSE @]

(* Variant: the rejected handler rejects with a new error of its own      *)
(* instead of the error it received.                                      *)
ResponseInterceptor_Wraps(r) ==
  IF r.ok
  THEN [r EXCEPT !.data = IF Truthy(@) THEN deepSnakeToCamel(@) ELSE @]
  ELSE [ok |-> FALSE, hasResponse |-> FALSE, status |-> 0,
        message |-> "API error", data |-> r.data]
(* Fulfilled handler on a response, rejected handler (log, re-reject with *)
(* the same error) on a failure.                                           *)
ResponseInterceptor(r) ==
  IF r.ok
  THEN [r EXCEPT !.data = IF Truthy(@) THEN deepSnakeToCamel(@) ELSE @]
  ELSE r

(* console.error calls of the response interceptor for the outcome r: one *)
(* in the rejected handler, none in the fulfilled handler.                *)
Logged(r) == IF r.ok THEN 0 ELSE 1

(* api.get / api.post / api.put / api.delete up to the dispatch. *)
Dispatch(method, url, data, params) ==
  RequestInterceptor(
    [method |-> method, url |-> url, data |-> data, params |-> params])

(***************************************************************************)
(* What the transport can answer to a dispatched request: a 2xx response   *)
(* with a body in wire casing, an HTTP error response, or a failure with   *)
(* no response; a rejection may carry an empty message.                    *)
(***************************************************************************)
Success(status, data) ==
  [ok |-> TRUE, hasResponse |-> TRUE, status |-> status, message |-> "",
   data |-> data]
Failure(hasResponse, status, message) ==
  [ok |-> FALSE, hasResponse |-> hasResponse, status |-> status,
   message |-> message, data |-> Null]
Failures ==
  { Failure(TRUE, 404, "Request failed with status code 404"),
    Failure(TRUE, 500, ""),
    Failure(FALSE, 0, "Network Error"),
    Failure(FALSE, 0, "") }
EmptyBody == Prim("")
(* An item-scoped GET or PUT answers with a version of the item that the  *)
(* url names; a POST answers with the created item, whatever its id.       *)
Successes ==
  [s \in Stores, action \in Actions, id \in CallIds \cup {""} |->
     CASE action = "getAll" ->
            {Success(200, Arr(a)) : a \in Collections(s, MaxItems)}
       [] action = "getById" ->
            {Success(200, d) : d \in WireItemsWithId(s, id)}
       [] action = "create" -> {Success(201, d) : d \in WireItems(s)}
       [] action = "update" ->
            {Success(200, d) : d \in WireItemsWithId(s, id)}
       [] action = "remove" -> {Success(204, EmptyBody)}]
Outcomes ==
  [s \in Stores, action \in Actions, id \in CallIds \cup {""} |->
     Successes[s, action, id] \cup Failures]

(***************************************************************************)
(* Pieces shared by the catch blocks:  err.message || fallback  and        *)
(* err.response?.status ?? null.                                           *)
(***************************************************************************)
Fallback(s, action) ==
  CASE action = "getAll" ->
         IF s = "video" THEN "Failed to fetch videos"
         ELSE "Failed to fetch channels"
    [] action = "getById" ->
         IF s = "video" THEN "Failed to fetch video"
         ELSE "Failed to fetch channel"
    [] action = "create" ->
         IF s = "video" THEN "Failed to create video"
         ELSE "Failed to create channel"
    [] action = "update" ->
         IF s = "video" THEN "Failed to update video"
         ELSE "Failed to update channel"
    [] action = "remove" ->
         IF s = "video" THEN "Failed to delete video"
         ELSE "Failed to delete channel"
(* Variant: the message is stored as it is, without the `|| fallback`. *)
ErrMessage_NoFallback(err, fallback) == err.message
ErrMessage(err, fallback) == IF err.message # "" THEN err.message ELSE fallback
ErrStatus(err) == IF err.hasResponse THEN err.status ELSE StatusNull

Envelope(data, status) == [data |-> data, status |-> status]
(* The state an action leaves and how its promise settles. *)
Resolved(its, ld, er, env) ==
  [items |-> its, loading |-> ld, error |-> er, settled |-> "resolved",
   env |-> env]
Rejected(its, ld, er) ==
  [items |-> its, loading |-> ld, error |-> er, settled |-> "rejected",
   env |-> Envelope(Undefined, StatusNull)]

(* videos.value.findIndex(c => c.id === id): 0-based, -1 when absent. *)
findIndex(its, id) ==
  IF \E i \in 1..Len(its) : Get(its[i], IdKey) = Prim(id)
  THEN (CHOOSE i \in 1..Len(its) :
          /\ Get(its[i], IdKey) = Prim(id)
          /\ \A j \in 1..(i - 1) : Get(its[j], IdKey) # Prim(id)) - 1
  ELSE -1
(* videos.value.filter(c => c.id !== id) *)
RECURSIVE filterNotId(_, _)
filterNotId(its, id) ==
  IF its = <<>> THEN <<>>
  ELSE IF Get(Head(its), IdKey) # Prim(id)
       THEN <<Head(its)>> \o filterNotId(Tail(its), id)
       ELSE filterNotId(Tail(its), id)

(***************************************************************************)
(* The five actions, each split at its await: the part that runs when the  *)
(* action is called, and the part that runs when the transport settles     *)
(* (response interceptor, then try / catch / finally).                     *)
(***************************************************************************)
(* Variant: loading is cleared at the end of the try block, not in a      *)
(* finally block.                                                          *)
getAllResume_NoFinally(r) ==
  LET res == ResponseInterceptor(r) IN
  IF res.ok
  THEN Resolved(res.data.e, FALSE, error, Envelope(res.data, res.status))
  ELSE Resolved(items, loading, ErrMessage(res, Fallback(store, "getAll")),
                Envelope(Arr(<<>>), ErrStatus(res)))
(* Variant: the fetched page is concatenated to the list instead of       *)
(* replacing it.                                                           *)
getAllResume_Concat(r) ==
  LET res == ResponseInterceptor(r) IN
  IF res.ok
  THEN Resolved(items \o res.data.e, FALSE, error,
                Envelope(res.data, res.status))
  ELSE Resolved(items, FALSE, ErrMessage(res, Fallback(store, "getAll")),
                Envelope(Arr(<<>>), ErrStatus(res)))
(* Variant: a list that is already loaded is not fetched over (the        *)
(* response of a getAll is dropped when items is non-empty).              *)
getAllResume_KeepsLoaded(r) ==
  LET res == ResponseInterceptor(r) IN
  IF res.ok
  THEN Resolved(IF items = <<>> THEN res.data.e ELSE items, FALSE, error,
                Envelope(res.data, res.status))
  ELSE Resolved(items, FALSE, ErrMessage(res, Fallback(store, "getAll")),
                Envelope(Arr(<<>>), ErrStatus(res)))
(* Variant: a failed getAll answers with the list the store holds. *)
getAllResume_ReturnsItems(r) ==
  LET res == ResponseInterceptor(r) IN
  IF res.ok
  THEN Resolved(res.data.e, FALSE, error, Envelope(res.data, res.status))
  ELSE Resolved(items, FALSE, ErrMessage(res, Fallback(store, "getAll")),
                Envelope(Arr(items), ErrStatus(res)))
getAllStart == [loading |-> TRUE, error |-> NoError]
getAllResume(r) ==
  LET res == ResponseInterceptor(r) IN
  IF res.ok
  THEN Resolved(res.data.e, FALSE, error, Envelope(res.data, res.status))
  ELSE Resolved(items, FALSE, ErrMessage(res, Fallback(store, "getAll")),
                Envelope(Arr(<<>>), ErrStatus(res)))

(* Variant: the fetched item refreshes its copy in the list. *)
getByIdResume_Refreshes(r) ==
  LET res == ResponseInterceptor(r)
      index == findIndex(items, Get(res.data, IdKey).v)
  IN IF res.ok
     THEN Resolved(IF index # -1
                   THEN [items EXCEPT ![index + 1] = res.data]
                   ELSE items,
                   loading, error, Envelope(res.data, res.status))
     ELSE Resolved(items, loading,
                   ErrMessage(res, Fallback(store, "getById")),
                   Envelope(Null, ErrStatus(res)))
getByIdResume(r) ==
  LET res == ResponseInterceptor(r) IN
  IF res.ok
  THEN Resolved(items, loading, error, Envelope(res.data, res.status))
  ELSE Resolved(items, loading, ErrMessage(res, Fallback(store, "getById")),
                Envelope(Null, ErrStatus(res)))

(* Variant: unshift instead of push. *)
createResume_Unshift(r) ==
  LET res == ResponseInterceptor(r) IN
  IF res.ok
  THEN Resolved(<<res.data>> \o items, loading, error,
                Envelope(res.data, res.status))
  ELSE Resolved(items, loading, ErrMessage(res, Fallback(store, "create")),
                Envelope(Null, ErrStatus(res)))
(* Variant: create clears loading when it settles, as getAll does in its  *)
(* finally block.                                                          *)
createResume_ClearsLoading(r) ==
  LET res == ResponseInterceptor(r) IN
  IF res.ok
  THEN Resolved(Append(items, res.data), FALSE, error,
                Envelope(res.data, res.status))
  ELSE Resolved(items, FALSE, ErrMessage(res, Fallback(store, "create")),
                Envelope(Null, ErrStatus(res)))
(* Variant: a successful create clears error. *)
createResume_ClearsError(r) ==
  LET res == ResponseInterceptor(r) IN
  IF res.ok
  THEN Resolved(Append(items, res.data), loading, NoError,
                Envelope(res.data, res.status))
  ELSE Resolved(items, loading, ErrMessage(res, Fallback(store, "create")),
                Envelope(Null, ErrStatus(res)))
createResume(r) ==
  LET res == ResponseInterceptor(r) IN
  IF res.ok
  THEN Resolved(Append(items, res.data), loading, error,
                Envelope(res.data, res.status))
  ELSE Resolved(items, loading, ErrMessage(res, Fallback(store, "create")),
                Envelope(Null, ErrStatus(res)))

(* Variant: items.map(c => c.id === id ? response.data : c). *)
updateResume_MapsAll(id, r) ==
  LET res == ResponseInterceptor(r) IN
  IF res.ok
  THEN Resolved([i \in 1..Len(items) |->
                   IF Get(items[i], IdKey) = Prim(id) THEN res.data
                   ELSE items[i]],
                loading, error, Envelope(res.data, res.status))
  ELSE Resolved(items, loading, ErrMessage(res, Fallback(store, "update")),
                Envelope(Null, ErrStatus(res)))
(* Variant: an item that is not in the list is pushed (upsert). *)
updateResume_Upsert(id, r) ==
  LET res == ResponseInterceptor(r)
      index == findIndex(items, id)
  IN IF res.ok
     THEN Resolved(IF index # -1
                   THEN [items EXCEPT ![index + 1] = res.data]
                   ELSE Append(items, res.data),
                   loading, error, Envelope(res.data, res.status))
     ELSE Resolved(items, loading,
                   ErrMessage(res, Fallback(store, "update")),
                   Envelope(Null, ErrStatus(res)))
(* Variant: the element is replaced in the copy of the list taken when    *)
(* the first call was made, and that copy becomes the list.               *)
updateResume_Snapshot(id, r) ==
  LET res == ResponseInterceptor(r)
      index == findIndex(race.start, id)
  IN IF res.ok
     THEN Resolved(IF index # -1
                   THEN [race.start EXCEPT ![index + 1] = res.data]
                   ELSE items,
                   loading, error, Envelope(res.data, res.status))
     ELSE Resolved(items, loading,
                   ErrMessage(res, Fallback(store, "update")),
                   Envelope(Null, ErrStatus(res)))
updateResume(id, r) ==
  LET res == ResponseInterceptor(r)
      index == findIndex(items, id)
  IN IF res.ok
     THEN Resolved(IF index # -1
                   THEN [items EXCEPT ![index + 1] = res.data]
                   ELSE items,
                   loading, error, Envelope(res.data, res.status))
     ELSE Resolved(items, loading,
                   ErrMessage(res, Fallback(store, "update")),
                   Envelope(Null, ErrStatus(res)))

(* Variant: no catch block, the rejection propagates to the caller. *)
removeResume_Rethrows(id, r) ==
  LET res == ResponseInterceptor(r) IN
  IF res.ok
  THEN Resolved(filterNotId(items, id), loading, error,
                Envelope(Null, res.status))
  ELSE Rejected(items, loading, error)
(* Variant: splice(findIndex(...), 1), which removes the first match only. *)
removeResume_Splice(id, r) ==
  LET res == ResponseInterceptor(r)
      index == findIndex(items, id)
  IN IF res.ok
     THEN Resolved(IF index # -1
                   THEN SubSeq(items, 1, index)
                          \o SubSeq(items, index + 2, Len(items))
                   ELSE items,
                   loading, error, Envelope(Null, res.status))
     ELSE Resolved(items, loading,
                   ErrMessage(res, Fallback(store, "remove")),
                   Envelope(Null, ErrStatus(res)))
(* Variant: the item is filtered out before the outcome is known. *)
removeResume_Optimistic(id, r) ==
  LET res == ResponseInterceptor(r) IN
  IF res.ok
  THEN Resolved(filterNotId(items, id), loading, error,
                Envelope(Null, res.status))
  ELSE Resolved(filterNotId(items, id), loading,
                ErrMessage(res, Fallback(store, "remove")),
                Envelope(Null, ErrStatus(res)))
(* Variant: the list is filtered from the copy taken when the first call  *)
(* was made, so what other responses wrote in between is lost.            *)
removeResume_Snapshot(id, r) ==
  LET res == ResponseInterceptor(r) IN
  IF res.ok
  THEN Resolved(filterNotId(race.start, id), loading, error,
                Envelope(Null, res.status))
  ELSE Resolved(items, loading, ErrMessage(res, Fallback(store, "remove")),
                Envelope(Null, ErrStatus(res)))
removeResume(id, r) ==
  LET res == ResponseInterceptor(r) IN
  IF res.ok
  THEN Resolved(filterNotId(items, id), loading, error,
                Envelope(Null, res.status))
  ELSE Resolved(items, loading, ErrMessage(res, Fallback(store, "remove")),
                Envelope(Null, ErrStatus(res)))

(***************************************************************************)
(* State machine.  pending is the bag of the calls in flight: the store    *)
(* keeps no record of the order in which they were made.  last             *)
(* describes the step just taken when it settled a call: the action and    *)
(* id of the call, the transport's outcome, how the promise settled and    *)
(* the envelope it returned; a step that calls an action resets it.        *)
(***************************************************************************)
NoOutcome == Failure(FALSE, 0, "")
NoEnvelope == Envelope(Undefined, StatusNull)
Call(action, id, req) == [action |-> action, id |-> id, req |-> req]
Settled(c, r, out) ==
  [action |-> c.action, id |-> c.id, resp |-> r, settled |-> out.settled,
   env |-> out.env]
NoneSettled ==
  [action |-> "", id |-> "", resp |-> NoOutcome, settled |-> "pending",
   env |-> NoEnvelope]

(* race keeps the books of two overlapping calls (the calls in the order  *)
(* they were made, the outcomes in the order they were handled, the items *)
(* when the first call was made); conv is the key a case conversion is    *)
(* applied to.  Neither is used by the store on its own.                  *)
NoRace == [calls |-> <<>>, handled |-> <<>>, start |-> <<>>]
(* route is the route the breadcrumbs are computed for, sticky the sticky  *)
(* bar with the layout's component, server the backend collection; none   *)
(* is used by the store on its own.                                       *)
NoRoute == [stage |-> "none"]
NoSticky == [stage |-> "none"]
NoServer == [stage |-> "none"]
NoConv == [stage |-> "none", input |-> <<>>, wire |-> <<>>, back |-> <<>>]

Init ==
  /\ store \in Stores
  /\ items = <<>>
  /\ loading = FALSE
  /\ error = NoError
  /\ pending = EmptyBag
  /\ last = NoneSettled
  /\ race = NoRace
  /\ conv = NoConv
  /\ route = NoRoute
  /\ sticky = NoSticky
  /\ server = NoServer

CanCall == BagCardinality(pending) < MaxInFlight

Call_getAll(params) ==
  /\ CanCall
  /\ loading' = getAllStart.loading
  /\ error' = getAllStart.error
  /\ pending' = pending (+) SetToBag({
       Call("getAll", "", Dispatch("get", Url(store, ""), Undefined, params))})
  /\ last' = NoneSettled
  /\ UNCHANGED <<store, items, race, conv, route, sticky, server>>

Call_getById(id) ==
  /\ CanCall
  /\ pending' = pending (+) SetToBag({
       Call("getById", id,
            Dispatch("get", Url(store, id), Undefined, Undefined))})
  /\ last' = NoneSettled
  /\ UNCHANGED <<store, items, loading, error, race, conv, route, sticky, server>>

Call_create(body) ==
  /\ CanCall
  /\ pending' = pending (+) SetToBag({
       Call("create", "", Dispatch("post", Url(store, ""), body, Undefined))})
  /\ last' = NoneSettled
  /\ UNCHANGED <<store, items, loading, error, race, conv, route, sticky, server>>

Call_update(id, body) ==
  /\ CanCall
  /\ pending' = pending (+) SetToBag({
       Call("update", id, Dispatch("put", Url(store, id), body, Undefined))})
  /\ last' = NoneSettled
  /\ UNCHANGED <<store, items, loading, error, race, conv, route, sticky, server>>

Call_remove(id) ==
  /\ CanCall
  /\ pending' = pending (+) SetToBag({
       Call("remove", id,
            Dispatch("delete", Url(store, id), Undefined, Undefined))})
  /\ last' = NoneSettled
  /\ UNCHANGED <<store, items, loading, error, race, conv, route, sticky, server>>

(* The transport settles the call c in flight with outcome r. *)
Finish(c, r, out) ==
  /\ items' = out.items
  /\ loading' = out.loading
  /\ error' = out.error
  /\ pending' = pending (-) SetToBag({c})
  /\ last' = Settled(c, r, out)
  /\ UNCHANGED <<store, race, conv, route, sticky, server>>

Settle_getAll(c, r) ==
  /\ c.action = "getAll"
  /\ Finish(c, r, getAllResume(r))

Settle_getById(c, r) ==
  /\ c.action = "getById"
  /\ Finish(c, r, getByIdResume(r))

Settle_create(c, r) ==
  /\ c.action = "create"
  /\ r.ok => Len(items) < MaxItems
  /\ Finish(c, r, createResume(r))

Settle_update(c, r) ==
  /\ c.action = "update"
  /\ Finish(c, r, updateResume(c.id, r))

Settle_remove(c, r) ==
  /\ c.action = "remove"
  /\ Finish(c, r, removeResume(c.id, r))

Next ==
  \/ \E params \in ParamsArgs : Call_getAll(params)
  \/ \E id \in CallIds : Call_getById(id)
  \/ \E body \in BodyArgs(store) : Call_create(body)
  \/ \E id \in CallIds, body \in BodyArgs(store) : Call_update(id, body)
  \/ \E id \in CallIds : Call_remove(id)
  \/ \E c \in BagToSet(pending) :
       \E r \in Outcomes[store, c.action, c.id] : Settle_getAll(c, r)
  \/ \E c \in BagToSet(pending) :
       \E r \in Outcomes[store, c.action, c.id] : Settle_getById(c, r)
  \/ \E c \in BagToSet(pending) :
       \E r \in Outcomes[store, c.action, c.id] : Settle_create(c, r)
  \/ \E c \in BagToSet(pending) :
       \E r \in Outcomes[store, c.action, c.id] : Settle_update(c, r)
  \/ \E c \in BagToSet(pending) :
       \E r \in Outcomes[store, c.action, c.id] : Settle_remove(c, r)

Spec == Init /\ [][Next]_vars

(***************************************************************************)
(* Two overlapping calls of one store.  Both actions are called before     *)
(* either response is handled; the transport then answers them in either   *)
(* order.  The store runs the same code as above; race.calls keeps the     *)
(* calls in the order they were made, race.handled the outcomes in the     *)
(* order they were handled, race.start the items when the first call was   *)
(* made.  The store starts with any list it can hold after earlier         *)
(* creates.                                                                *)
(***************************************************************************)
RaceStart(s) ==
  {[i \in 1..Len(c) |-> deepSnakeToCamel(c[i])] :
     c \in SeqsUpTo(WireItems(s), MaxItems)}

RaceCalls(s) ==
  {Call("getAll", "", Dispatch("get", Url(s, ""), Undefined, params)) :
     params \in ParamsArgs}
  \cup {Call("create", "", Dispatch("post", Url(s, ""), body, Undefined)) :
          body \in BodyArgs(s)}
  \cup {Call("update", id, Dispatch("put", Url(s, id), body, Undefined)) :
          id \in Ids, body \in BodyArgs(s)}
  \cup {Call("remove", id,
             Dispatch("delete", Url(s, id), Undefined, Undefined)) :
          id \in Ids}

RaceFailures == {Failure(TRUE, 404, "Request failed with status code 404")}

RaceOutcomes(s, c) ==
  RaceFailures \cup
  CASE c.action = "getAll" ->
         {Success(200, Arr(a)) : a \in Collections(s, 1)}
    [] c.action = "create" ->
         {Success(201, w) : w \in WireItems(s)}
    [] c.action = "update" ->
         {Success(200, WireItem(s, c.id, val)) : val \in Vals}
    [] c.action = "remove" -> {Success(204, EmptyBody)}

(* The continuation of the call c after its await. *)
ResumeOf(c, r) ==
  CASE c.action = "getAll" -> getAllResume(r)
    [] c.action = "create" -> createResume(r)
    [] c.action = "update" -> updateResume(c.id, r)
    [] c.action = "remove" -> removeResume(c.id, r)

Handled(n) == \E i \in 1..Len(race.handled) : race.handled[i].n = n

InitRace ==
  /\ store \in Stores
  /\ items \in RaceStart(store)
  /\ loading = FALSE
  /\ error = NoError
  /\ pending = EmptyBag
  /\ last = NoneSettled
  /\ race = [calls |-> <<>>, handled |-> <<>>, start |-> items]
  /\ conv = NoConv
  /\ route = NoRoute
  /\ sticky = NoSticky
  /\ server = NoServer

Race_Call(c) ==
  /\ Len(race.calls) < 2
  /\ loading' = IF c.action = "getAll" THEN getAllStart.loading ELSE loading
  /\ error' = IF c.action = "getAll" THEN getAllStart.error ELSE error
  /\ pending' = pending (+) SetToBag({c})
  /\ last' = NoneSettled
  /\ race' = [race EXCEPT !.calls = Append(@, c)]
  /\ UNCHANGED <<store, items, conv, route, sticky, server>>

Race_Handle(n, r) ==
  /\ Len(race.calls) = 2
  /\ ~Handled(n)
  /\ LET c == race.calls[n]
         out == ResumeOf(c, r)
     IN /\ items' = out.items
        /\ loading' = out.loading
        /\ error' = out.error
        /\ pending' = pending (-) SetToBag({c})
        /\ last' = Settled(c, r, out)
        /\ race' = [race EXCEPT !.handled =
                      Append(@, [n |-> n, resp |-> r, env |-> out.env])]
  /\ UNCHANGED <<store, conv, route, sticky, server>>

NextRace ==
  \/ \E c \in RaceCalls(store) : Race_Call(c)
  \/ \E n \in 1..Len(race.calls) :
       \E r \in RaceOutcomes(store, race.calls[n]) : Race_Handle(n, r)

SpecRace == InitRace /\ [][NextRace]_vars

(***************************************************************************)
(* The key conversions on their own.  A key of at most MaxKeyLen           *)
(* characters (letters of both cases, the underscore, a digit) is          *)
(* converted to wire casing with camelToSnake and back with snakeToCamel.  *)
(***************************************************************************)
KeyChars == {"a", "b", "A", "B", "_", "1"}
Keys == SeqsUpTo(KeyChars, MaxKeyLen)

InitKeys ==
  /\ store \in Stores
  /\ items = <<>>
  /\ loading = FALSE
  /\ error = NoError
  /\ pending = EmptyBag
  /\ last = NoneSettled
  /\ race = NoRace
  /\ route = NoRoute
  /\ sticky = NoSticky
  /\ server = NoServer
  /\ conv \in {[stage |-> "input", input |-> k, wire |-> <<>>, back |-> <<>>] :
                k \in Keys}

Key_camelToSnake ==
  /\ conv.stage = "input"
  /\ conv' = [conv EXCEPT !.stage = "wire", !.wire = camelToSnake(conv.input)]
  /\ UNCHANGED <<store, items, loading, error, pending, last, race,
               route, sticky, server>>

Key_snakeToCamel ==
  /\ conv.stage = "wire"
  /\ conv' = [conv EXCEPT !.stage = "back", !.back = snakeToCamel(conv.wire)]
  /\ UNCHANGED <<store, items, loading, error, pending, last, race,
               route, sticky, server>>

NextKeys ==
  \/ Key_camelToSnake
  \/ Key_snakeToCamel

SpecKeys == InitKeys /\ [][NextKeys]_vars

(***************************************************************************)
(* The deep conversions on their own.  A value nested at most MaxDepth     *)
(* deep is converted in one direction, and the result once more in the     *)
(* same direction.  The values are built from a string, null and a Date,   *)
(* wrapped in arrays (alone or after a string) and in objects (alone or    *)
(* after a string entry); the keys are one in wire casing, one in local    *)
(* casing that the former converts to, and one the same in both.           *)
(***************************************************************************)
DeepKeys == {<<"a", "_", "b">>, <<"a", "B">>, <<"c">>}
DeepString == Prim("a_bC")
DeepLeaves == {DeepString, Null, DateObj("d")}
Wrappings(v) ==
  {Arr(<<v>>), Arr(<<DeepString, v>>)}
  \cup {Obj(<<Entry(k, v)>>) : k \in DeepKeys}
  \cup {Obj(<<Entry(p[1], DeepString), Entry(p[2], v)>>) :
          p \in {q \in DeepKeys \X DeepKeys : q[1] # q[2]}}
RECURSIVE DeepValues(_)
DeepValues(depth) ==
  IF depth = 0 THEN DeepLeaves \cup {Arr(<<>>), Obj(<<>>)}
  ELSE LET inner == DeepValues(depth - 1)
       IN inner \cup UNION {Wrappings(v) : v \in inner}

InitDeep ==
  /\ store \in Stores
  /\ items = <<>>
  /\ loading = FALSE
  /\ error = NoError
  /\ pending = EmptyBag
  /\ last = NoneSettled
  /\ race = NoRace
  /\ route = NoRoute
  /\ sticky = NoSticky
  /\ server = NoServer
  /\ conv \in {[stage |-> "input", dir |-> "", input |-> v,
                once |-> Undefined, twice |-> Undefined] :
                 v \in DeepValues(MaxDepth)}

Deep_snakeToCamel ==
  /\ conv.stage = "input"
  /\ conv' = [conv EXCEPT !.stage = "once", !.dir = "local",
                          !.once = deepSnakeToCamel(conv.input)]
  /\ UNCHANGED <<store, items, loading, error, pending, last, race,
               route, sticky, server>>

Deep_camelToSnake ==
  /\ conv.stage = "input"
  /\ conv' = [conv EXCEPT !.stage = "once", !.dir = "wire",
                          !.once = deepCamelToSnake(conv.input)]
  /\ UNCHANGED <<store, items, loading, error, pending, last, race,
               route, sticky, server>>

Deep_Again ==
  /\ conv.stage = "once"
  /\ conv' = [conv EXCEPT !.stage = "twice",
                          !.twice = IF conv.dir = "local"
                                    THEN deepSnakeToCamel(conv.once)
                                    ELSE deepCamelToSnake(conv.once)]
  /\ UNCHANGED <<store, items, loading, error, pending, last, race,
               route, sticky, server>>

NextDeep ==
  \/ Deep_snakeToCamel
  \/ Deep_camelToSnake
  \/ Deep_Again

SpecDeep == InitDeep /\ [][NextDeep]_vars

(***************************************************************************)
(* useBreadcrumbs.  route.matched is the chain of route records the        *)
(* current location matches, at most MaxMatched long; a record has a path  *)
(* and a meta object ({} when the route declares none).  The records are   *)
(* the two of the base routes table (meta.breadcrumb), the same two as the *)
(* router registers them (no meta), and one with meta.i18nKey.  The        *)
(* computed list is evaluated when it is read.                             *)
(***************************************************************************)
RouteRecord(path, meta) == [path |-> path, meta |-> meta]
routes ==
  {RouteRecord("/", Obj(<<Entry("breadcrumb", Prim("common.start"))>>)),
   RouteRecord("/settings",
               Obj(<<Entry("breadcrumb", Prim("common.settings"))>>))}
RouterRoutes ==
  {RouteRecord("/", Obj(<<>>)), RouteRecord("/settings", Obj(<<>>))}
KeyedRoutes ==
  {RouteRecord("/media", Obj(<<Entry("i18nKey", Prim("media.title"))>>))}
Matched == SeqsUpTo(routes \cup RouterRoutes \cup KeyedRoutes, MaxMatched)

(* t(key) of vue-i18n: the message of the key in the current locale. *)
translate(k) == <<"t", k>>

breadcrumbs(matched) ==
  LET kept == SelectSeq(matched,
                LAMBDA r : Truthy(r.meta) /\ Truthy(Get(r.meta, "i18nKey")))
  IN [i \in 1..Len(kept) |->
        [name |-> translate(Get(kept[i].meta, "i18nKey").v),
         path |-> kept[i].path]]

InitCrumbs ==
  /\ store \in Stores
  /\ items = <<>>
  /\ loading = FALSE
  /\ error = NoError
  /\ pending = EmptyBag
  /\ last = NoneSettled
  /\ race = NoRace
  /\ conv = NoConv
  /\ sticky = NoSticky
  /\ server = NoServer
  /\ route \in {[stage |-> "matched", matched |-> m, breadcrumbs |-> <<>>] :
                  m \in Matched}

Crumbs_read ==
  /\ route.stage = "matched"
  /\ route' = [route EXCEPT !.stage = "read",
                            !.breadcrumbs = breadcrumbs(route.matched)]
  /\ UNCHANGED <<store, items, loading, error, pending, last, race, conv,
                 sticky, server>>

NextCrumbs == Crumbs_read

SpecCrumbs == InitCrumbs /\ [][NextCrumbs]_vars

(***************************************************************************)
(* useStickyBarStore and the stickyComponent of useLayoutStore.            *)
(*                                                                         *)
(* elements.value is an array object: add changes it in place, remove and  *)
(* clear put a new array in its place.  The props the watcher hands to the *)
(* layout store hold a reference to the array of that moment: as long as   *)
(* that array is still elements.value ("live") a reader of props.items     *)
(* sees the current elements, afterwards it sees the content the replaced  *)
(* array had.  The deep watcher is scheduled by every change and runs      *)
(* once per flush, after the calls of the tick.  At most MaxElements       *)
(* elements are held.                                                      *)
(***************************************************************************)
StickyIds == 1..MaxElements
StickyComponents == {"SearchField", "FilterChips"}
StickyProps == {Undefined}

BarElement(id, component, props) ==
  [id |-> id, component |-> component, props |-> props]

add_AlwaysPush(elements, component, props, top, id) ==
  Append(elements, BarElement(id, component, props))
add(elements, component, props, top, id) ==
  LET element == BarElement(id, component, props)
  IN IF top THEN <<element>> \o elements ELSE Append(elements, element)

remove(elements, id) == SelectSeq(elements, LAMBDA e : e.id # id)

clear == <<>>

setStickyComponent(component, props) ==
  [component |-> component, props |-> props]
clearStickyComponent == Null

(* The reference elements.value held by props.items. *)
LiveItems == [live |-> TRUE, content |-> <<>>]
(* What that reference shows once elements.value was replaced. *)
Detached(shown, elements) ==
  IF shown # Null /\ shown.props.items.live
    THEN setStickyComponent(shown.component,
                            [items |-> [live |-> FALSE, content |-> elements]])
    ELSE shown

elementsWatcher_NeverClears(elements) ==
  setStickyComponent("StickyBarContent", [items |-> LiveItems])
elementsWatcher(elements) ==
  IF Len(elements) = 0
    THEN clearStickyComponent
    ELSE setStickyComponent("StickyBarContent", [items |-> LiveItems])

NoOp == [name |-> "none", top |-> FALSE, id |-> 0, before |-> <<>>]

InitSticky ==
  /\ store \in Stores
  /\ items = <<>>
  /\ loading = FALSE
  /\ error = NoError
  /\ pending = EmptyBag
  /\ last = NoneSettled
  /\ race = NoRace
  /\ conv = NoConv
  /\ route = NoRoute
  /\ server = NoServer
  /\ sticky = [stage |-> "live", elements |-> <<>>, stickyComponent |-> Null,
               queued |-> FALSE, op |-> NoOp]

StickyRest ==
  UNCHANGED <<store, items, loading, error, pending, last, race, conv,
              route, server>>

Sticky_add(component, props, top, id) ==
  /\ Len(sticky.elements) < MaxElements
  /\ \A i \in 1..Len(sticky.elements) : sticky.elements[i].id # id
  /\ sticky' = [sticky EXCEPT
       !.elements = add(sticky.elements, component, props, top, id),
       !.queued = TRUE,
       !.op = [name |-> "add", top |-> top, id |-> id,
               before |-> sticky.elements]]
  /\ StickyRest

Sticky_remove(id) ==
  /\ sticky' = [sticky EXCEPT
       !.elements = remove(sticky.elements, id),
       !.stickyComponent = Detached(sticky.stickyComponent, sticky.elements),
       !.queued = TRUE,
       !.op = [name |-> "remove", top |-> FALSE, id |-> id,
               before |-> sticky.elements]]
  /\ StickyRest

Sticky_clear ==
  /\ sticky' = [sticky EXCEPT
       !.elements = clear,
       !.stickyComponent = Detached(sticky.stickyComponent, sticky.elements),
       !.queued = TRUE,
       !.op = [name |-> "clear", top |-> FALSE, id |-> 0,
               before |-> sticky.elements]]
  /\ StickyRest

Sticky_Flush ==
  /\ sticky.queued
  /\ sticky' = [sticky EXCEPT
       !.stickyComponent = elementsWatcher(sticky.elements),
       !.queued = FALSE]
  /\ StickyRest

NextSticky ==
  \/ \E component \in StickyComponents, props \in StickyProps,
        top \in BOOLEAN, id \in StickyIds :
       Sticky_add(component, props, top, id)
  \/ \E id \in StickyIds : Sticky_remove(id)
  \/ Sticky_clear
  \/ Sticky_Flush

SpecSticky == InitSticky /\ [][NextSticky]_vars

(***************************************************************************)
(* A store against a backend.  server.coll is the ordered collection the   *)
(* backend keeps; it never holds an id twice.  A call travels in three     *)
(* steps: the store dispatches the request, the backend handles it         *)
(* (answering from the collection as it is at that moment), the store      *)
(* handles the answer.  At most server.cap calls are in flight, and the    *)
(* answers are handled in any order.                                       *)
(*                                                                         *)
(* The backend appends on POST (under an id the collection does not hold), *)
(* replaces in place on PUT and deletes on DELETE, answers 404 when the id *)
(* is unknown, may answer 500 to any request, and applies nothing when it  *)
(* answers with an error.  GET lists the collection, cut to the first      *)
(* `limit` items when the limit parameter is given.                        *)
(*                                                                         *)
(* SpecServer has overlapping calls (two in flight) and a transport that   *)
(* delivers every request and every answer.  SpecSequential has the caller *)
(* await each call before the next, and a transport that can lose the      *)
(* request before the backend sees it or the answer on its way back (the   *)
(* store then sees a failure without response).                            *)
(*                                                                         *)
(* server.synced, server.paged and server.lost keep the books of the       *)
(* history: whether a getAll without parameters has succeeded, whether a   *)
(* getAll with parameters was called since the last one that did, whether  *)
(* the answer to an applied change was lost since.                         *)
(***************************************************************************)
LimitKey == <<"l","i","m","i","t">>
NoParams == {Undefined}
LimitParams == {Obj(<<Entry(LimitKey, Prim("1"))>>)}

ServerCalls(s, paramsArgs) ==
  {Call("getAll", "", Dispatch("get", Url(s, ""), Undefined, params)) :
     params \in paramsArgs}
  \cup {Call("create", "",
             Dispatch("post", Url(s, ""),
                      Obj(<<Entry(LocalDateKey(s), Prim("x"))>>), Undefined))}
  \cup {Call("update", id,
             Dispatch("put", Url(s, id),
                      Obj(<<Entry(LocalDateKey(s), Prim("y"))>>), Undefined)) :
          id \in CallIds}
  \cup {Call("remove", id,
             Dispatch("delete", Url(s, id), Undefined, Undefined)) :
          id \in CallIds}

IdsOf(coll) == {Get(coll[i], IdKey).v : i \in 1..Len(coll)}
Page(coll, params) ==
  IF Truthy(params) /\ Len(coll) > 1 THEN SubSeq(coll, 1, 1) ELSE coll
ServerError == Failure(TRUE, 500, "Request failed with status code 500")
NotFound == Failure(TRUE, 404, "Request failed with status code 404")
NoResponse == Failure(FALSE, 0, "Network Error")
Kept(coll, r) == [coll |-> coll, resp |-> r]

(* The ways the backend can handle the request of the call c. *)
Serve(s, coll, c) ==
  {Kept(coll, ServerError)} \cup
  CASE c.action = "getAll" ->
         {Kept(coll, Success(200, Arr(Page(coll, c.req.params))))}
    [] c.action = "create" ->
         {[coll |-> Append(coll, w), resp |-> Success(201, w)] :
            w \in {WireItem(s, id, Get(c.req.data, WireDateKey(s)).v) :
                     id \in Ids \ IdsOf(coll)}}
    [] c.action = "update" ->
         IF c.id \in IdsOf(coll)
           THEN LET w == WireItem(s, c.id, Get(c.req.data, WireDateKey(s)).v)
                    at == CHOOSE i \in 1..Len(coll) :
                            Get(coll[i], IdKey) = Prim(c.id)
                IN {[coll |-> [coll EXCEPT ![at] = w],
                     resp |-> Success(200, w)]}
           ELSE {Kept(coll, NotFound)}
    [] c.action = "remove" ->
         IF c.id \in IdsOf(coll)
           THEN {[coll |-> SelectSeq(coll,
                             LAMBDA w : Get(w, IdKey) # Prim(c.id)),
                  resp |-> Success(204, EmptyBody)]}
           ELSE {Kept(coll, NotFound)}

ServerStart(cap) ==
  {[stage |-> "live", cap |-> cap, coll |-> c, flight |-> <<>>,
    synced |-> FALSE, paged |-> FALSE, lost |-> FALSE] :
     c \in Collections(store, MaxItems)}

InitServer ==
  /\ store \in Stores
  /\ items = <<>>
  /\ loading = FALSE
  /\ error = NoError
  /\ pending = EmptyBag
  /\ last = NoneSettled
  /\ race = NoRace
  /\ conv = NoConv
  /\ route = NoRoute
  /\ sticky = NoSticky
  /\ server \in ServerStart(2)

ServerRest == UNCHANGED <<store, race, conv, route, sticky>>

Server_Call(c) ==
  /\ Len(server.flight) < server.cap
  /\ loading' = IF c.action = "getAll" THEN getAllStart.loading ELSE loading
  /\ error' = IF c.action = "getAll" THEN getAllStart.error ELSE error
  /\ pending' = pending (+) SetToBag({c})
  /\ last' = NoneSettled
  /\ server' = [server EXCEPT
       !.flight = Append(@, [call |-> c, phase |-> "sent",
                             resp |-> NoOutcome]),
       !.paged = @ \/ (c.action = "getAll" /\ Truthy(c.req.params))]
  /\ UNCHANGED items
  /\ ServerRest

Server_Answer(n) ==
  /\ server.flight[n].phase = "sent"
  /\ \E a \in Serve(store, server.coll, server.flight[n].call) :
       server' = [server EXCEPT
         !.coll = a.coll,
         !.flight[n] = [@ EXCEPT !.phase = "answered", !.resp = a.resp]]
  /\ UNCHANGED <<items, loading, error, pending, last>>
  /\ ServerRest

Server_LoseRequest(n) ==
  /\ server.flight[n].phase = "sent"
  /\ server' = [server EXCEPT
       !.flight[n] = [@ EXCEPT !.phase = "answered", !.resp = NoResponse]]
  /\ UNCHANGED <<items, loading, error, pending, last>>
  /\ ServerRest

Server_LoseResponse(n) ==
  /\ server.flight[n].phase = "answered"
  /\ server.flight[n].resp.hasResponse
  /\ server' = [server EXCEPT
       !.flight[n] = [@ EXCEPT !.resp = NoResponse],
       !.lost = @ \/ (server.flight[n].resp.ok
                        /\ server.flight[n].call.action # "getAll")]
  /\ UNCHANGED <<items, loading, error, pending, last>>
  /\ ServerRest

Server_Handle(n) ==
  /\ server.flight[n].phase = "answered"
  /\ LET c == server.flight[n].call
         r == server.flight[n].resp
         out == ResumeOf(c, r)
         syncs == c.action = "getAll" /\ r.ok /\ ~Truthy(c.req.params)
     IN /\ (c.action = "create" /\ r.ok) => Len(items) < MaxItems
        /\ items' = out.items
        /\ loading' = out.loading
        /\ error' = out.error
        /\ pending' = pending (-) SetToBag({c})
        /\ last' = Settled(c, r, out)
        /\ server' = [server EXCEPT
             !.flight = SubSeq(@, 1, n - 1) \o SubSeq(@, n + 1, Len(@)),
             !.synced = @ \/ syncs,
             !.paged = @ /\ ~syncs,
             !.lost = @ /\ ~syncs]
  /\ ServerRest

NextServer ==
  \/ \E c \in ServerCalls(store, NoParams) : Server_Call(c)
  \/ \E n \in 1..Len(server.flight) : Server_Answer(n)
  \/ \E n \in 1..Len(server.flight) : Server_Handle(n)

SpecServer == InitServer /\ [][NextServer]_vars

InitSequential ==
  /\ store \in Stores
  /\ items = <<>>
  /\ loading = FALSE
  /\ error = NoError
  /\ pending = EmptyBag
  /\ last = NoneSettled
  /\ race = NoRace
  /\ conv = NoConv
  /\ route = NoRoute
  /\ sticky = NoSticky
  /\ server \in ServerStart(1)

NextSequential ==
  \/ \E c \in ServerCalls(store, NoParams \cup LimitParams) : Server_Call(c)
  \/ \E n \in 1..Len(server.flight) : Server_Answer(n)
  \/ \E n \in 1..Len(server.flight) : Server_LoseRequest(n)
  \/ \E n \in 1..Len(server.flight) : Server_LoseResponse(n)
  \/ \E n \in 1..Len(server.flight) : Server_Handle(n)

SpecSequential == InitSequential /\ [][NextSequential]_vars

(***************************************************************************)
(* Progress.  A store that starts empty, up to two overlapping calls, and  *)
(* a transport that settles every dispatched request: with a response, or  *)
(* with the failure its timeout of 10 s raises when none arrives.  A call  *)
(* is settled as soon as it is in flight (the other call need not have     *)
(* been made); race keeps the books as above, with how each promise        *)
(* settled.                                                                *)
(***************************************************************************)
TimedOut == Failure(FALSE, 0, "timeout of 10000ms exceeded")
LiveOutcomes(s, c) == RaceOutcomes(s, c) \cup {TimedOut}

InitLive ==
  /\ store \in Stores
  /\ items = <<>>
  /\ loading = FALSE
  /\ error = NoError
  /\ pending = EmptyBag
  /\ last = NoneSettled
  /\ race = [calls |-> <<>>, handled |-> <<>>, start |-> <<>>]
  /\ conv = NoConv
  /\ route = NoRoute
  /\ sticky = NoSticky
  /\ server = NoServer

Live_Settle(n, r) ==
  /\ n <= Len(race.calls)
  /\ ~Handled(n)
  /\ LET c == race.calls[n]
         out == ResumeOf(c, r)
     IN /\ (c.action = "create" /\ r.ok) => Len(items) < MaxItems
        /\ items' = out.items
        /\ loading' = out.loading
        /\ error' = out.error
        /\ pending' = pending (-) SetToBag({c})
        /\ last' = Settled(c, r, out)
        /\ race' = [race EXCEPT !.handled =
                      Append(@, [n |-> n, resp |-> r, env |-> out.env,
                                 settled |-> out.settled])]
  /\ UNCHANGED <<store, conv, route, sticky, server>>

(* The transport settles the n-th call, one way or another. *)
Live_Transport(n) ==
  \E r \in LiveOutcomes(store, race.calls[n]) : Live_Settle(n, r)

NextLive ==
  \/ \E c \in RaceCalls(store) : Race_Call(c)
  \/ \E n \in 1..Len(race.calls) : Live_Transport(n)

SpecLive ==
  /\ InitLive
  /\ [][NextLive]_vars
  /\ \A n \in 1..2 : WF_vars(n <= Len(race.calls) /\ Live_Transport(n))

(***************************************************************************)
(* Vocabulary of the properties.  A step that settles a call leaves it in  *)
(* last; unprimed variables are the state just before the transport's      *)
(* outcome was handled, primed ones the state when the promise settles.    *)
(***************************************************************************)
JustSettled(action) == last.action = action
InFlight(action) == {c \in BagToSet(pending) : c.action = action}
Failed == ~last.resp.ok
Succeeded == last.resp.ok
(* The item or the list the store reads from a 2xx response: the body with *)
(* its keys in local casing, written out field by field.                   *)
LocalOf(w) ==
  LocalItem(store, Get(w, IdKey).v, Get(w, WireDateKey(store)).v)
LocalListOf(body) == [i \in 1..Len(body.e) |-> LocalOf(body.e[i])]
HasId(c, id) == Get(c, IdKey) = Prim(id)
(* err.message if non-empty, else the fallback of the action *)
RecordedError(resp, action) ==
  IF resp.message # "" THEN resp.message ELSE Fallback(store, action)
(* err.response.status if a response exists, else null *)
RecordedStatus(resp) == IF resp.hasResponse THEN resp.status ELSE StatusNull
Is2xx(status) == status \in 200..299

C2_ErrorAndStatusOnRejection ==
  (last.action \in Actions /\ Failed) =>
    /\ error = (IF last.resp.message # "" THEN last.resp.message
                ELSE Fallback(store, last.action))
    /\ last.env.status = (IF last.resp.hasResponse THEN last.resp.status
                          ELSE StatusNull)
C2_Witness ==
  /\ JustSettled("update")
  /\ Failed /\ last.resp.hasResponse /\ last.resp.message = ""
  /\ error = Fallback(store, "update")
  /\ last.env.status = 500

(* C3: a getAll call sets loading to true and error to null before its    *)
(* request is in flight, and when the call settles loading is false, on   *)
(* the success path and on the failure path alike.                        *)
C3_LoadingAroundGetAll ==
  [][/\ (\E c \in InFlight("getAll")' :
          CopiesIn(c, pending') = CopiesIn(c, pending) + 1) =>
          (loading' = TRUE /\ error' = NoError)
     /\ last'.action = "getAll" => loading' = FALSE]_vars
C3_Witness ==
  /\ JustSettled("getAll")
  /\ Failed
  /\ loading = FALSE
  /\ InFlight("getAll") # {}

(* C4 as stated: a successful getAll makes items exactly the response's   *)
(* sequence; a failed getAll leaves items as they were, makes error the   *)
(* failure's message and ends with loading false.                         *)
C4_Original ==
  [][last'.action = "getAll" =>
       IF last'.resp.ok
       THEN items' = LocalListOf(last'.resp.data)
       ELSE /\ items' = items
            /\ error' = last'.resp.message
            /\ loading' = FALSE]_vars
(* C4 amended: as above, but on failure error is the failure's message    *)
(* when that is non-empty and the fallback 'Failed to fetch videos' /     *)
(* 'Failed to fetch channels' otherwise.                                  *)
C4_GetAllReplacesOrKeeps ==
  [][last'.action = "getAll" =>
       IF last'.resp.ok
       THEN items' = LocalListOf(last'.resp.data)
       ELSE /\ items' = items
            /\ error' = RecordedError(last'.resp, "getAll")
            /\ loading' = FALSE]_vars
C4_Witness ==
  /\ JustSettled("getAll")
  /\ Failed /\ last.resp.message = ""
  /\ Len(items) = 2
  /\ error = Fallback(store, "getAll")

(* C5: a successful create appends exactly one element, the server's item *)
(* in local casing, at the end of the items it finds when the response is *)
(* handled; a failed create leaves items unchanged and returns data null. *)
C5_CreateAppends ==
  [][last'.action = "create" =>
       IF last'.resp.ok
       THEN items' = Append(items, LocalOf(last'.resp.data))
       ELSE items' = items /\ last'.env.data = Null]_vars
C5_Witness ==
  /\ JustSettled("create")
  /\ Succeeded
  /\ Len(items) = 2
  /\ items[2] = LocalOf(last.resp.data)
  /\ items[1] # items[2]

(* C6: a successful update(id, payload) on items holding an element with  *)
(* that id replaces that element by the server's item at its position and *)
(* changes neither the length nor any other element; a failed update      *)
(* leaves items unchanged and returns data null.                          *)
C6_UpdateReplacesInPlace ==
  [][last'.action = "update" =>
       IF last'.resp.ok
       THEN (\E i \in 1..Len(items) : HasId(items[i], last'.id)) =>
              \E i \in 1..Len(items) :
                /\ HasId(items[i], last'.id)
                /\ Len(items') = Len(items)
                /\ items'[i] = LocalOf(last'.resp.data)
                /\ \A j \in 1..Len(items) : j # i => items'[j] = items[j]
       ELSE items' = items /\ last'.env.data = Null]_vars
C6_Witness ==
  /\ JustSettled("update")
  /\ Succeeded
  /\ Len(items) = 2
  /\ ~HasId(items[1], last.id)
  /\ items[2] = LocalOf(last.resp.data)
  /\ HasId(items[2], last.id)

(* C7: a successful update(id, payload) for an id no element of items     *)
(* carries leaves items unchanged, and the envelope carries the server's  *)
(* updated object and the response's 2xx status.                          *)
C7_UpdateWithoutMatch ==
  [][(/\ last'.action = "update"
      /\ last'.resp.ok
      /\ \A i \in 1..Len(items) : ~HasId(items[i], last'.id)) =>
       /\ items' = items
       /\ last'.env.data = LocalOf(last'.resp.data)
       /\ last'.env.status = last'.resp.status
       /\ Is2xx(last'.env.status)]_vars
C7_Witness ==
  /\ JustSettled("update")
  /\ Succeeded
  /\ items # <<>>
  /\ \A i \in 1..Len(items) : ~HasId(items[i], last.id)
  /\ HasId(last.env.data, last.id)

C10_GetByIdKeepsItems ==
  [][last'.action = "getById" =>
       /\ items' = items
       /\ ~last'.resp.ok =>
            /\ last'.env.data = Null
            /\ last'.env.status = RecordedStatus(last'.resp)
            /\ error' = RecordedError(last'.resp, "getById")
            /\ error' # NoError]_vars
C10_Witness ==
  /\ JustSettled("getById")
  /\ Succeeded
  /\ items # <<>>
  /\ \A i \in 1..Len(items) : last.env.data # items[i]

(***************************************************************************)
(* Properties of two overlapping calls (SpecRace).  RaceOver: both         *)
(* responses were handled; Nth(i) is the i-th handled outcome, with the    *)
(* ordinal n of its call.                                                  *)
(***************************************************************************)
RaceOver == Len(race.handled) = 2
Nth(i) == race.handled[i]
BothAre(action) ==
  /\ Len(race.calls) = 2
  /\ race.calls[1].action = action
  /\ race.calls[2].action = action

(* C11: two overlapping getAll calls are neither serialized nor           *)
(* deduplicated: when the response of the second call is handled first    *)
(* and the response of the first call second, items ends as the payload   *)
(* of the first call.                                                     *)
C11_LastHandledGetAllWins ==
  (/\ BothAre("getAll")
   /\ RaceOver
   /\ Nth(1).n = 2
   /\ Nth(2).n = 1
   /\ Nth(2).resp.ok)
  => items = LocalListOf(Nth(2).resp.data)
C11_Witness ==
  /\ BothAre("getAll")
  /\ RaceOver
  /\ Nth(1).n = 2
  /\ Nth(2).n = 1
  /\ Nth(1).resp.ok
  /\ Nth(2).resp.ok
  /\ Nth(1).resp.data.e # <<>>
  /\ Nth(1).resp.data # Nth(2).resp.data
  /\ items = LocalListOf(Nth(2).resp.data)
  /\ items # race.start

(* What handling the outcome r of the call c does to a list its: a failure *)
(* leaves it alone; a getAll replaces it, a create appends, an update      *)
(* replaces the first element with the id, a remove drops every element    *)
(* with the id.                                                            *)
EffectOf(c, r, its) ==
  IF ~r.ok THEN its
  ELSE CASE c.action = "getAll" -> LocalListOf(r.data)
         [] c.action = "create" -> Append(its, LocalOf(r.data))
         [] c.action = "update" ->
              IF \E i \in 1..Len(its) : HasId(its[i], c.id)
              THEN LET first == CHOOSE i \in 1..Len(its) :
                                  /\ HasId(its[i], c.id)
                                  /\ \A j \in 1..(i - 1) : ~HasId(its[j], c.id)
                   IN [its EXCEPT ![first] = LocalOf(r.data)]
              ELSE its
         [] c.action = "remove" ->
              SelectSeq(its, LAMBDA x : ~HasId(x, c.id))
CallOf(h) == race.calls[h.n]

(* C12: when two item-mutating actions of one store overlap, their        *)
(* effects on items are applied in the order in which their responses are *)
(* handled, whatever the order in which the actions were called.          *)
C12_EffectsInHandlingOrder ==
  /\ Len(race.handled) = 1 =>
       items = EffectOf(CallOf(Nth(1)), Nth(1).resp, race.start)
  /\ RaceOver =>
       items = EffectOf(CallOf(Nth(2)), Nth(2).resp,
                        EffectOf(CallOf(Nth(1)), Nth(1).resp, race.start))
C12_Witness ==
  /\ RaceOver
  /\ race.calls[1].action = "create"
  /\ race.calls[2].action = "remove"
  /\ Nth(1).n = 2
  /\ Nth(2).n = 1
  /\ Nth(1).resp.ok
  /\ Nth(2).resp.ok
  /\ HasId(Nth(2).resp.data, race.calls[2].id)
  /\ \E i \in 1..Len(race.start) : HasId(race.start[i], race.calls[2].id)
  /\ items # <<>>
  /\ items[Len(items)] = LocalOf(Nth(2).resp.data)
  /\ items # EffectOf(race.calls[2], Nth(1).resp,
                      EffectOf(race.calls[1], Nth(2).resp, race.start))

(* The handled outcome of the n-th call, and the envelope a call returns   *)
(* for the outcome r when nothing else interferes.                         *)
OutcomeOf(n) ==
  race.handled[CHOOSE i \in 1..Len(race.handled) : race.handled[i].n = n]
OwnEnvelope(r) ==
  IF r.ok THEN Envelope(LocalOf(r.data), r.status)
  ELSE Envelope(Null, RecordedStatus(r))

(* C13: two overlapping update calls on different ids are independent:    *)
(* whichever response is handled first, items ends as the start list with *)
(* each call's own replacement applied, and each call returns the         *)
(* envelope of its own response.                                          *)
C13_UpdatesOnDifferentIdsCommute ==
  (/\ BothAre("update")
   /\ race.calls[1].id # race.calls[2].id
   /\ RaceOver)
  => /\ items = EffectOf(race.calls[2], OutcomeOf(2).resp,
                         EffectOf(race.calls[1], OutcomeOf(1).resp,
                                  race.start))
     /\ items = EffectOf(race.calls[1], OutcomeOf(1).resp,
                         EffectOf(race.calls[2], OutcomeOf(2).resp,
                                  race.start))
     /\ OutcomeOf(1).env = OwnEnvelope(OutcomeOf(1).resp)
     /\ OutcomeOf(2).env = OwnEnvelope(OutcomeOf(2).resp)
C13_Witness ==
  /\ BothAre("update")
  /\ race.calls[1].id # race.calls[2].id
  /\ RaceOver
  /\ Nth(1).n = 2
  /\ Nth(1).resp.ok
  /\ Nth(2).resp.ok
  /\ Len(race.start) = 2
  /\ \A n \in 1..2 : \E i \in 1..2 : HasId(race.start[i], race.calls[n].id)
  /\ \A i \in 1..2 : items[i] # race.start[i]

(***************************************************************************)
(* Properties of loading and error (Spec).  JustCalled(action): the step   *)
(* put a call of the action in flight.                                     *)
(***************************************************************************)
JustCalled(action) ==
  \E c \in InFlight(action)' :
    CopiesIn(c, pending') = CopiesIn(c, pending) + 1
OtherActions == Actions \ {"getAll"}

C16_ErrorResetOnlyByGetAll ==
  [][/\ (error # NoError /\ error' = NoError) => JustCalled("getAll")
     /\ JustCalled("getAll") => error' = NoError
     /\ (\E a \in OtherActions : JustCalled(a)) => error' = error
     /\ (last'.action \in Actions /\ last'.resp.ok) => error' = error
     /\ (last'.action \in Actions /\ ~last'.resp.ok) =>
          /\ error' = RecordedError(last'.resp, last'.action)
          /\ error' # NoError]_vars
C16_Witness ==
  /\ error # NoError
  /\ last.action \in OtherActions
  /\ Succeeded
  /\ InFlight("getAll") = {}
  /\ \A a \in Actions : error # Fallback(store, a)

(* C17: loading indicates whether an API request of the store is in        *)
(* progress: in every reachable state loading is true exactly when some    *)
(* request issued by any action of the store is in flight.                 *)
C17_LoadingIffRequestInFlight ==
  loading <=> pending # EmptyBag

(***************************************************************************)
(* Properties of the transport pipeline (Spec).  KeysOf: the keys of a     *)
(* value at every depth.  A key is in wire casing when it has no capital,  *)
(* in local casing when no underscore is followed by a lower-case letter.  *)
(***************************************************************************)
RECURSIVE KeysOf(_)
KeysOf(data) ==
  CASE data.t = "arr" ->
         UNION {KeysOf(data.e[i]) : i \in 1..Len(data.e)}
    [] data.t = "obj" ->
         UNION {{data.e[i].k} \cup KeysOf(data.e[i].v) : i \in 1..Len(data.e)}
    [] OTHER -> {}
IsWireKey(k) == \A i \in 1..Len(k) : ~IsUpper(k[i])
IsLocalKey(k) ==
  \A i \in 1..(Len(k) - 1) : ~(k[i] = "_" /\ IsLower(k[i + 1]))
(* The body the caller passed, key by key in wire casing. *)
WireOf(body) ==
  Obj(<<Entry(WireDateKey(store), Get(body, LocalDateKey(store)))>>)

(* C18: every request in flight carries its body and its query parameters *)
(* with wire keys, the body being the caller's body transcoded once; what *)
(* a settled action returns and every element of items has local keys.    *)
(* Transcoding outbound thus precedes the dispatch, and transcoding        *)
(* inbound precedes the store's update.                                    *)
C18_WireOutLocalIn ==
  /\ \A c \in BagToSet(pending) :
       /\ \A k \in KeysOf(c.req.data) \cup KeysOf(c.req.params) : IsWireKey(k)
       /\ c.action \in {"create", "update"} =>
            \E body \in BodyArgs(store) : c.req.data = WireOf(body)
       /\ c.action = "getAll" => c.req.params \in ParamsArgs
  /\ \A i \in 1..Len(items) :
       /\ KeysOf(items[i]) # {}
       /\ \A k \in KeysOf(items[i]) : IsLocalKey(k)
  /\ \A k \in KeysOf(last.env.data) : IsLocalKey(k)
C18_Witness ==
  /\ \E c \in BagToSet(pending) :
       /\ c.action \in {"create", "update"}
       /\ \E k \in KeysOf(c.req.data) : ~IsLocalKey(k)
  /\ JustSettled("getAll")
  /\ Succeeded
  /\ \E k \in KeysOf(last.resp.data) : ~IsLocalKey(k)
  /\ items # <<>>
  /\ \A i \in 1..Len(items) : \E k \in KeysOf(items[i]) : ~IsWireKey(k)

(* What the await of the settled action yielded: the transport's outcome  *)
(* as the response interceptor passed it on.                               *)
Awaited == ResponseInterceptor(last.resp)
IsLetter(c) == IsLower(c) \/ IsUpper(c)
LettersOnly(k) == \A i \in 1..Len(k) : IsLetter(k[i])

(* C20: round trip: for every key k made of letters only,                 *)
(* snakeToCamel(camelToSnake(k)) = k.                                     *)
C20_RoundTripOnLetters ==
  (conv.stage = "back" /\ LettersOnly(conv.input)) => conv.back = conv.input
C20_Witness ==
  /\ conv.stage = "back"
  /\ LettersOnly(conv.input)
  /\ Len(conv.input) = 3
  /\ IsLower(conv.input[1])
  /\ IsUpper(conv.input[2])
  /\ IsUpper(conv.input[3])
  /\ conv.wire # conv.input
  /\ conv.back = conv.input

(***************************************************************************)
(* Properties of the deep conversions (SpecDeep).  A value is transcodable *)
(* when it is built of primitives, null, arrays and plain objects only.    *)
(***************************************************************************)
RECURSIVE IsTranscodable(_)
IsTranscodable(v) ==
  CASE v.t = "date" -> FALSE
    [] v.t = "arr" -> \A i \in 1..Len(v.e) : IsTranscodable(v.e[i])
    [] v.t = "obj" -> \A i \in 1..Len(v.e) : IsTranscodable(v.e[i].v)
    [] OTHER -> TRUE
Converted == conv.stage \in {"once", "twice"}
InTargetCasing(v, dir) ==
  \A k \in KeysOf(v) : IF dir = "local" THEN IsLocalKey(k) ELSE IsWireKey(k)

(* C21: converting a transcodable value whose keys are already in the     *)
(* target casing returns an equal value, and each direction is            *)
(* idempotent: converting the result once more changes nothing.           *)
C21_NoOpAndIdempotent ==
  /\ (Converted /\ IsTranscodable(conv.input)
        /\ InTargetCasing(conv.input, conv.dir))
       => conv.once = conv.input
  /\ (conv.stage = "twice" /\ IsTranscodable(conv.input))
       => conv.twice = conv.once
C21_Witness ==
  /\ conv.stage = "twice"
  /\ conv.dir = "local"
  /\ IsTranscodable(conv.input)
  /\ conv.input.t = "arr"
  /\ Cardinality(KeysOf(conv.input)) = 2
  /\ conv.once # conv.input
  /\ InTargetCasing(conv.once, "local")
  /\ conv.twice = conv.once

(* The key function of a direction, and what it is for out to be in with   *)
(* the keys rewritten at every depth and nothing else changed: a primitive *)
(* or null is the same; an array is an array of the same length whose      *)
(* elements correspond in order; an object is an object whose keys are the *)
(* rewritten keys of in, each holding the rewritten value of an entry of   *)
(* that key.                                                               *)
KeyIn(k, dir) == IF dir = "local" THEN snakeToCamel(k) ELSE camelToSnake(k)
RECURSIVE OnlyKeysRewritten(_, _, _)
OnlyKeysRewritten(in, out, dir) ==
  CASE in.t = "arr" ->
         /\ out.t = "arr"
         /\ Len(out.e) = Len(in.e)
         /\ \A i \in 1..Len(in.e) : OnlyKeysRewritten(in.e[i], out.e[i], dir)
    [] in.t = "obj" ->
         /\ out.t = "obj"
         /\ \A i \in 1..Len(in.e) :
              \E j \in 1..Len(out.e) : out.e[j].k = KeyIn(in.e[i].k, dir)
         /\ \A j \in 1..Len(out.e) :
              \E i \in 1..Len(in.e) :
                /\ out.e[j].k = KeyIn(in.e[i].k, dir)
                /\ OnlyKeysRewritten(in.e[i].v, out.e[j].v, dir)
    [] OTHER -> out = in

(* C22: deep conversion rewrites the key of every mapping at every        *)
(* nesting depth, in mappings and in sequences alike, and changes nothing *)
(* else: sequences keep their length and the order of their elements,     *)
(* primitives and null (strings with separators or capitals too) are      *)
(* returned unchanged.                                                    *)
C22_KeysRewrittenAtEveryDepth ==
  (Converted /\ IsTranscodable(conv.input)) =>
    /\ OnlyKeysRewritten(conv.input, conv.once, conv.dir)
    /\ InTargetCasing(conv.once, conv.dir)
C22_Witness ==
  /\ conv.stage = "once"
  /\ conv.dir = "local"
  /\ IsTranscodable(conv.input)
  /\ conv.input.t = "arr"
  /\ Len(conv.input.e) = 2
  /\ conv.once.e[1] = DeepString
  /\ conv.input.e[2].t = "obj"
  /\ Len(conv.input.e[2].e) = 2
  /\ conv.once.e[2] # conv.input.e[2]
  /\ Len(conv.once.e[2].e) = 2

(* C23: conversion preserves the structure of a mapping: in either        *)
(* direction the result has exactly as many entries as the input mapping, *)
(* and the converted value of each input entry is in the result under     *)
(* the rewritten key; no entry is lost or overwritten.                    *)
C23_EveryEntryKept ==
  (Converted /\ IsTranscodable(conv.input) /\ conv.input.t = "obj") =>
    /\ conv.once.t = "obj"
    /\ Len(conv.once.e) = Len(conv.input.e)
    /\ \A i \in 1..Len(conv.input.e) :
         \E j \in 1..Len(conv.once.e) :
           /\ conv.once.e[j].k = KeyIn(conv.input.e[i].k, conv.dir)
           /\ OnlyKeysRewritten(conv.input.e[i].v, conv.once.e[j].v, conv.dir)

(* C24: deep conversion returns every value that is neither a plain       *)
(* mapping nor a sequence as it is; a Date, converted at top level or as  *)
(* an element of a sequence or a value of a mapping, comes back unchanged *)
(* and is not rebuilt as a mapping.                                       *)
IsContainer(v) == v.t \in {"arr", "obj"}
C24_OpaqueValuesReturnedAsIs ==
  Converted =>
    /\ ~IsContainer(conv.input) => conv.once = conv.input
    /\ (conv.input.t = "arr" /\ conv.once.t = "arr"
          /\ Len(conv.once.e) = Len(conv.input.e)) =>
         \A i \in 1..Len(conv.input.e) :
           ~IsContainer(conv.input.e[i]) => conv.once.e[i] = conv.input.e[i]
    /\ (conv.input.t = "obj" /\ conv.once.t = "obj"
          /\ Len(conv.once.e) = Len(conv.input.e)) =>
         \A i \in 1..Len(conv.input.e) :
           ~IsContainer(conv.input.e[i].v) =>
             conv.once.e[i].v = conv.input.e[i].v

(***************************************************************************)
(* Properties of useBreadcrumbs (SpecCrumbs).                              *)
(***************************************************************************)
HasBreadcrumb(r) == Truthy(Get(r.meta, "breadcrumb"))

(* C25: useBreadcrumbs reads meta.breadcrumb of each matched route: the   *)
(* list it returns has one entry for every matched route whose meta       *)
(* defines breadcrumb, in matched order, with the translated label and    *)
(* the path of the route.                                                 *)
C25_BreadcrumbsFromMetaBreadcrumb ==
  route.stage = "read" =>
    LET with == SelectSeq(route.matched, HasBreadcrumb)
    IN route.breadcrumbs =
         [i \in 1..Len(with) |->
            [name |-> translate(Get(with[i].meta, "breadcrumb").v),
             path |-> with[i].path]]

(***************************************************************************)
(* Properties of the sticky bar store (SpecSticky).                        *)
(***************************************************************************)
(* What a reader of stickyComponent.props.items sees. *)
ShownItems ==
  IF sticky.stickyComponent.props.items.live
    THEN sticky.elements
    ELSE sticky.stickyComponent.props.items.content

WatcherHasRun == sticky.op.name # "none" /\ ~sticky.queued

(* C26: after any sequence of add, remove and clear, once the elements    *)
(* watcher has run, stickyComponent is null when elements is empty and    *)
(* otherwise StickyBarContent with props.items equal to the current       *)
(* elements; add puts the element at the start when top is true and at    *)
(* the end otherwise.                                                     *)
C26_StickyComponentFollowsElements ==
  /\ WatcherHasRun =>
       IF sticky.elements = <<>>
         THEN sticky.stickyComponent = Null
         ELSE /\ sticky.stickyComponent # Null
              /\ sticky.stickyComponent.component = "StickyBarContent"
              /\ ShownItems = sticky.elements
  /\ sticky.op.name = "add" =>
       /\ Len(sticky.elements) = Len(sticky.op.before) + 1
       /\ LET at == IF sticky.op.top THEN 1 ELSE Len(sticky.elements)
              shift == IF sticky.op.top THEN 1 ELSE 0
          IN /\ sticky.elements[at].id = sticky.op.id
             /\ \A i \in 1..Len(sticky.op.before) :
                  sticky.elements[i + shift] = sticky.op.before[i]

(* An element was added on top of another, one was removed, and the       *)
(* watcher has run on what is left.                                       *)
C26_Witness ==
  /\ WatcherHasRun
  /\ sticky.op.name = "remove"
  /\ Len(sticky.op.before) = 2
  /\ Len(sticky.elements) = 1
  /\ sticky.stickyComponent # Null

C27_NoDuplicateIds ==
  \A i, j \in 1..Len(items) :
    Get(items[i], IdKey) = Get(items[j], IdKey) => i = j

(* The backend's collection as the store would list it. *)
ServerList == LocalListOf(Arr(server.coll))
Idle == server.flight = <<>>

(* C28 as stated: under sequential use, once a getAll without parameters  *)
(* has succeeded, items equals the backend's collection after every       *)
(* action, successful or failed.                                           *)
C28_Original ==
  (server.synced /\ Idle) => items = ServerList

(* C28: under sequential use, once a getAll without parameters has        *)
(* succeeded, items equals the backend's collection after every action,   *)
(* as long as no getAll was called with parameters since and every        *)
(* failure since was an error answer of the backend or a request that     *)
(* never reached it.                                                       *)
C28_ItemsFollowServer ==
  (server.synced /\ ~server.paged /\ ~server.lost /\ Idle) =>
    items = ServerList
C28_Witness ==
  /\ server.synced /\ ~server.paged /\ ~server.lost /\ Idle
  /\ JustSettled("update")
  /\ Failed /\ last.resp.status = 500
  /\ Len(items) = 2
  /\ items = ServerList

(***************************************************************************)
(* Progress of the store actions (SpecLive).                               *)
(***************************************************************************)
Called(n) == n <= Len(race.calls)
HasResolved(n) ==
  \E i \in 1..Len(race.handled) :
    race.handled[i].n = n /\ race.handled[i].settled = "resolved"

====
